---- MODULE Spec2Model ----
(***************************************************************************)
(* Model of infra/pubsub.py: PubsubConnectionConf (configuration built     *)
(* from arguments and the process environment) and PubsubManager (a        *)
(* publisher client built from the configuration, and publish()).          *)
(*                                                                         *)
(* Python values are encoded as follows.                                   *)
(*   Optional[T]   None is <<>>, a value v is <<v>>                        *)
(*   dict          a function from its keys to its values                  *)
(*   object        the message argument is named by its Python literal     *)
(*   bytes         the Python literal of the bytes value, e.g. b'null'     *)
(* The publisher client (google.cloud.pubsub_v1.PublisherClient) and the   *)
(* broker behind it are the environment: the model gives them only what    *)
(* the calls in pubsub.py rely on (publish either raises or returns a      *)
(* future; a future resolves once, with a message id or an exception).     *)
(***************************************************************************)
EXTENDS Integers, Sequences, FiniteSets, TLC

\* ---------------------------------------------------------------- bounds
\* integer arguments of the constructor range over -MaxInt..MaxInt
MaxInt == 1
\* a size ceiling in bytes, used only to state the validation claim (the
\* source has none); the longest payload of Messages is 6 bytes
SizeCeiling == 4

\* ------------------------------------------------------- program constants
_DEFAULT_BATCH_MESSAGES_ == 100
_DEFAULT_MESSAGE_SIZE_ == 1000000

\* ---------------------------------------------------------- Python values
None == <<>>
Some(v) == <<v>>
EmptyDict == <<>>

\* truth value of an Optional[int]: None and 0 are false
TruthyInt(x) == x # None /\ x[1] # 0
\* truth value of an Optional[str]: None and "" are false
TruthyStr(x) == x # None /\ x[1] # ""
\* truth value of an Optional[dict]: None and {} are false
TruthyDict(x) == x # None /\ DOMAIN x[1] # {}

\* dict.update(other)
Update(d, other) ==
    [k \in DOMAIN d \cup DOMAIN other |->
        IF k \in DOMAIN other THEN other[k] ELSE d[k]]

\* ------------------------------------------------------------ input sets
\* publish keeps everything it writes in locals (_params, future) and only
\* reads the configuration and the client, so callers do not interact in
\* pubsub.py itself; one caller making call after call is modelled.
Callers == {"c1"}
EnvValues == {None, Some("p1"), Some("p2")}
IntArgs == {None} \cup {Some(n) : n \in -MaxInt..MaxInt}
ServiceAccountFiles == {None, Some("sa.json")}
Topics == {"t1", "t2"}
Messages == {"''", "'aaaa'", "object()"}
AttrReserved == [k \in {"topic", "data", "project", "ordering_key"} |-> "evil"]
AttrKey == [k \in {"ordering_key"} |-> "ka"]
AttributeArgs == {None, Some(EmptyDict), Some(AttrReserved), Some(AttrKey)}
OrderingKeyArgs == {None, Some(""), Some("k")}
MessageIds == {"id1", "id2"}
SendErrors == {"GoogleAPICallError"}

VARIABLES
    env,        \* GOOGLE_CLOUD_PROJECT in the process environment
    conf,       \* the PubsubConnectionConf object, None until constructed
    lastInit,   \* how the last PubsubConnectionConf.__init__ ended
    manager,    \* the PubsubManager object, None until constructed
    pc,         \* per caller: "idle", or "result" (inside future.result())
    args,       \* per caller: the arguments of its last publish call
    handed,     \* per caller: the keyword arguments of its last client.publish call
    fut,        \* per caller: the future its last client.publish call returned
    sunk,       \* per caller: the broker has received the message of that call
    ret         \* per caller: how its last publish call ended

vars == <<env, conf, lastInit, manager, pc, args, handed, fut, sunk, ret>>
confVars == <<conf, lastInit, manager>>
callVars == <<pc, args, handed, fut, sunk, ret>>

\* ------------------------------------------------- PubsubConnectionConf
\* os.getenv(name): the value, or None
getenv == env

\* __get_default_env: the value, or ValueError when the variable is unset
GetDefaultEnvMissingAsEmpty ==
    IF getenv = None THEN [raised |-> "none", value |-> ""]
    ELSE [raised |-> "none", value |-> getenv[1]]

GetDefaultEnv ==
    IF getenv = None THEN [raised |-> "ValueError", value |-> ""]
    ELSE [raised |-> "none", value |-> getenv[1]]

\* __set_batch_settings: BatchSettings(max_bytes=..., max_messages=...)
SetBatchSettings(max_messages, max_bytes) ==
    [max_bytes |->
        IF TruthyInt(max_bytes) THEN max_bytes[1] ELSE _DEFAULT_MESSAGE_SIZE_,
     max_messages |->
        IF TruthyInt(max_messages) THEN max_messages[1] ELSE _DEFAULT_BATCH_MESSAGES_]

\* __set_publisher_options: PublisherOptions(enable_message_ordering=..., retry=Retry())
SetPublisherOptions(enable_message_ordering) ==
    [enable_message_ordering |-> enable_message_ordering, retry |-> "Retry()"]

NotConstructed == [raised |-> "never", attrs |-> {}]

\* PubsubConnectionConf.__init__ (one configuration object is built; a
\* failed call can be repeated): attributes are assigned in the order
\* credentials, project_id, bach_settings, publisher_options; an exception
\* leaves the object with the attributes assigned so far and no reference
\* to it. credsOk is whether the service account file can be loaded (it is
\* not read when no file is named). arg_max_messages and arg_max_bytes keep
\* the constructor's arguments beside the settings built from them.
Construct(service_account_file, enable_message_ordering, max_messages, max_bytes, credsOk) ==
    /\ conf = None
    /\ credsOk \/ TruthyStr(service_account_file)
    /\ IF TruthyStr(service_account_file) /\ ~credsOk
       THEN /\ lastInit' = [raised |-> "CredentialsError", attrs |-> {"credentials"}]
            /\ conf' = None
       ELSE LET credentials == IF TruthyStr(service_account_file)
                               THEN Some("Credentials") ELSE None
                project == GetDefaultEnv
            IN  IF project.raised # "none"
                THEN /\ lastInit' = [raised |-> project.raised, attrs |-> {"credentials"}]
                     /\ conf' = None
                ELSE /\ lastInit' =
                            [raised |-> "none",
                             attrs |-> {"credentials", "project_id",
                                        "bach_settings", "publisher_options"}]
                     /\ conf' = Some(
                            [credentials |-> credentials,
                             project_id |-> project.value,
                             bach_settings |-> SetBatchSettings(max_messages, max_bytes),
                             publisher_options |-> SetPublisherOptions(enable_message_ordering),
                             arg_max_messages |-> max_messages,
                             arg_max_bytes |-> max_bytes])
    /\ UNCHANGED <<env, manager, callVars>>

\* the process environment changes
SetEnv(v) ==
    /\ v # env
    /\ env' = v
    /\ UNCHANGED <<confVars, callVars>>

\* -------------------------------------------------------- PubsubManager
\* PubsubManager.__init__ and __init_client
InitClient ==
    /\ conf # None
    /\ manager = None
    /\ manager' = Some(
            [batch_settings |-> conf[1].bach_settings,
             publisher_options |-> conf[1].publisher_options,
             credentials |-> conf[1].credentials])
    /\ UNCHANGED <<env, conf, lastInit, callVars>>

\* PublisherClient.topic_path(project, topic)
TopicPath(project, topic) == "projects/" \o project \o "/topics/" \o topic

\* json.dumps(message): the JSON text, or None where it raises TypeError
Dumps(message) ==
    CASE message = "''" -> Some("\"\"")
      [] message = "'aaaa'" -> Some("\"aaaa\"")
      [] message = "object()" -> None

\* str.encode(text): the bytes of the text
StrEncode(text) == "b'" \o text \o "'"

\* len(data) of a bytes value
ByteLen(data) == Len(data) - 3

\* publish, lines 112-125: the keyword arguments built for client.publish
ParamsAttributesLast(project_id, topic, message, attributes, ordering_key) ==
    LET p1 == [project |-> project_id,
               topic |-> TopicPath(project_id, topic),
               data |-> StrEncode(Dumps(message)[1])]
        p2 == IF TruthyStr(ordering_key)
              THEN Update(p1, [k \in {"ordering_key"} |-> ordering_key[1]])
              ELSE p1
    IN  IF TruthyDict(attributes) THEN Update(p2, attributes[1]) ELSE p2

Params(project_id, topic, message, attributes, ordering_key) ==
    LET p0 == EmptyDict
        p1 == IF TruthyDict(attributes) THEN Update(p0, attributes[1]) ELSE p0
        p2 == IF TruthyStr(ordering_key)
              THEN Update(p1, [k \in {"ordering_key"} |-> ordering_key[1]])
              ELSE p1
    IN  Update(p2, [project |-> project_id,
                    topic |-> TopicPath(project_id, topic),
                    data |-> StrEncode(Dumps(message)[1])])

\* publish up to the call of client.publish: the exception raised before
\* the call, or the keyword arguments of the call
PublishCallValidating(project_id, topic, message, attributes, ordering_key) ==
    IF Dumps(message) = None
    THEN [raised |-> "TypeError", call |-> None]
    ELSE IF ByteLen(StrEncode(Dumps(message)[1])) > SizeCeiling
    THEN [raised |-> "InvalidMessageError", call |-> None]
    ELSE [raised |-> "none",
          call |-> Some(Params(project_id, topic, message, attributes, ordering_key))]

PublishCall(project_id, topic, message, attributes, ordering_key) ==
    IF Dumps(message) = None
    THEN [raised |-> "TypeError", call |-> None]
    ELSE [raised |-> "none",
          call |-> Some(Params(project_id, topic, message, attributes, ordering_key))]

NoFuture == [state |-> "none", value |-> ""]
Pending == [state |-> "pending", value |-> ""]
NoOutcome == [kind |-> "none", value |-> ""]
Resolved(f) == f.state \in {"success", "failure"}

\* future.result(), line 128: what the caller gets from a future
FutureResultSwallowing(f) ==
    IF f.state = "success" THEN [kind |-> "returned", value |-> f.value]
    ELSE [kind |-> "returned", value |-> "None"]

FutureResult(f) ==
    IF f.state = "success" THEN [kind |-> "returned", value |-> f.value]
    ELSE [kind |-> "raised", value |-> f.value]

\* line 128 can be passed once the future is resolved
ResultReadyAlways(f) == TRUE

ResultReady(f) == Resolved(f)

\* publish, lines 112-127. The client either raises from client.publish
\* (clientRaises) or returns a future for the message.
Publish(c, topic, message, attributes, ordering_key, clientRaises) ==
    /\ manager # None
    /\ pc[c] = "idle"
    /\ LET call == PublishCall(conf[1].project_id, topic, message,
                               attributes, ordering_key)
       IN  /\ args' = [args EXCEPT ![c] =
                    Some([topic |-> topic, message |-> message,
                          attributes |-> attributes,
                          ordering_key |-> ordering_key])]
           /\ handed' = [handed EXCEPT ![c] = call.call]
           /\ sunk' = [sunk EXCEPT ![c] = FALSE]
           /\ IF call.raised # "none"
              THEN /\ ~clientRaises
                   /\ ret' = [ret EXCEPT ![c] = [kind |-> "raised", value |-> call.raised]]
                   /\ fut' = [fut EXCEPT ![c] = NoFuture]
                   /\ pc' = pc
              ELSE IF clientRaises
              THEN /\ ret' = [ret EXCEPT ![c] = [kind |-> "raised", value |-> "ClientError"]]
                   /\ fut' = [fut EXCEPT ![c] = NoFuture]
                   /\ pc' = pc
              ELSE /\ ret' = [ret EXCEPT ![c] = NoOutcome]
                   /\ fut' = [fut EXCEPT ![c] = Pending]
                   /\ pc' = [pc EXCEPT ![c] = "result"]
    /\ UNCHANGED <<env, confVars>>

\* the broker receives the message of a pending call
SinkReceive(c) ==
    /\ fut[c].state = "pending"
    /\ ~sunk[c]
    /\ sunk' = [sunk EXCEPT ![c] = TRUE]
    /\ UNCHANGED <<env, confVars, pc, args, handed, fut, ret>>

\* the client resolves the future: with the message id the broker assigned
\* once the broker has the message, or with an exception
FutureSetResult(c, id) ==
    /\ fut[c].state = "pending"
    /\ sunk[c]
    /\ fut' = [fut EXCEPT ![c] = [state |-> "success", value |-> id]]
    /\ UNCHANGED <<env, confVars, pc, args, handed, sunk, ret>>

FutureSetException(c, e) ==
    /\ fut[c].state = "pending"
    /\ fut' = [fut EXCEPT ![c] = [state |-> "failure", value |-> e]]
    /\ UNCHANGED <<env, confVars, pc, args, handed, sunk, ret>>

\* a resolved future refuses another resolution and keeps its value
FutureSetAgain(c) ==
    /\ Resolved(fut[c])
    /\ pc[c] = "result"
    /\ UNCHANGED vars

\* publish, line 128: future.result() returns the message id or raises
PublishResult(c) ==
    /\ pc[c] = "result"
    /\ ResultReady(fut[c])
    /\ ret' = [ret EXCEPT ![c] = FutureResult(fut[c])]
    /\ pc' = [pc EXCEPT ![c] = "idle"]
    /\ UNCHANGED <<env, confVars, args, handed, fut, sunk>>

\* ---------------------------------------------------------- specification
Init ==
    /\ env \in EnvValues
    /\ conf = None
    /\ lastInit = NotConstructed
    /\ manager = None
    /\ pc = [c \in Callers |-> "idle"]
    /\ args = [c \in Callers |-> None]
    /\ handed = [c \in Callers |-> None]
    /\ fut = [c \in Callers |-> NoFuture]
    /\ sunk = [c \in Callers |-> FALSE]
    /\ ret = [c \in Callers |-> NoOutcome]

\* the calls of a caller and the client's and broker's steps
CallNext ==
    \/ \E c \in Callers, t \in Topics, m \in Messages, a \in AttributeArgs,
          k \in OrderingKeyArgs, r \in BOOLEAN : Publish(c, t, m, a, k, r)
    \/ \E c \in Callers : SinkReceive(c)
    \/ \E c \in Callers, id \in MessageIds : FutureSetResult(c, id)
    \/ \E c \in Callers, e \in SendErrors : FutureSetException(c, e)
    \/ \E c \in Callers : FutureSetAgain(c)
    \/ \E c \in Callers : PublishResult(c)

\* Spec: publishing through a configuration built with the default batch
\* settings (publish reads no batch setting).
Next ==
    \/ \E v \in EnvValues : SetEnv(v)
    \/ \E f \in ServiceAccountFiles, o \in BOOLEAN, ok \in BOOLEAN :
          Construct(f, o, None, None, ok)
    \/ InitClient
    \/ CallNext

Spec == Init /\ [][Next]_vars

\* ConfSpec: building the configuration and the client from every
\* combination of constructor arguments.
ConfNext ==
    \/ \E v \in EnvValues : SetEnv(v)
    \/ \E f \in ServiceAccountFiles, o \in BOOLEAN, mm \in IntArgs, mb \in IntArgs,
          ok \in BOOLEAN : Construct(f, o, mm, mb, ok)
    \/ InitClient

ConfSpec == Init /\ [][ConfNext]_vars

\* The client's background thread resolves every future it returned and the
\* calling thread runs on once future.result() can return.
ClientResolves(c) ==
    \/ \E id \in MessageIds : FutureSetResult(c, id)
    \/ \E e \in SendErrors : FutureSetException(c, e)

FairSpec ==
    /\ Spec
    /\ \A c \in Callers : WF_vars(ClientResolves(c)) /\ WF_vars(PublishResult(c))

\* ------------------------------------------------------------------ claims
Terminal(o) == o.kind \in {"returned", "raised"}
GotFuture(c) == fut[c].state # "none"
Ended(c) == pc[c] = "idle" /\ args[c] # None

\* C1 as stated: publish never blocks the caller, so no caller is ever
\* inside publish waiting on a future that the client has not resolved.
C1_NeverBlocksCaller ==
    \A c \in Callers : fut[c].state = "pending" => pc[c] = "idle"

\* C1 as amended: publish returns only after the client resolved the future
\* of the message; a normal return follows the broker's receipt of the
\* message and yields the message id, not a pending handle.
C1_ReturnsAfterResolution ==
    \A c \in Callers :
        (pc[c] = "idle" /\ GotFuture(c)) =>
            /\ Resolved(fut[c])
            /\ ret[c].kind = "returned" => (sunk[c] /\ ret[c].value \in MessageIds)

C1_Witness ==
    \E c \in Callers :
        /\ pc[c] = "idle"
        /\ fut[c].state = "success"
        /\ sunk[c]
        /\ ret[c] = [kind |-> "returned", value |-> fut[c].value]

C8_BatchSettingsFromArguments ==
    conf # None =>
        /\ conf[1].bach_settings.max_messages =
              (IF conf[1].arg_max_messages = None THEN 100
               ELSE conf[1].arg_max_messages[1])
        /\ conf[1].bach_settings.max_bytes =
              (IF conf[1].arg_max_bytes = None THEN 1000000
               ELSE conf[1].arg_max_bytes[1])

\* C9: the topic, data and project passed to client.publish come from the
\* topic argument, the serialized message and the configured project id,
\* never from attributes; ordering_key is the argument when that is a
\* non-empty string, and otherwise the attributes' entry if there is one.
C9_ReservedKeysFromArguments ==
    \A c \in Callers :
        handed[c] # None =>
            LET p == handed[c][1]
                a == args[c][1]
            IN  /\ p.topic = "projects/" \o conf[1].project_id \o "/topics/" \o a.topic
                /\ p.data = "b'" \o Dumps(a.message)[1] \o "'"
                /\ p.project = conf[1].project_id
                /\ TruthyStr(a.ordering_key) =>
                        p.ordering_key = a.ordering_key[1]
                /\ (~TruthyStr(a.ordering_key) /\ a.attributes # None
                        /\ "ordering_key" \in DOMAIN a.attributes[1]) =>
                        p.ordering_key = a.attributes[1].ordering_key

C9_Witness ==
    \E c \in Callers :
        /\ handed[c] # None
        /\ args[c][1].attributes = Some(AttrReserved)
        /\ args[c][1].ordering_key = Some("")
        /\ handed[c][1].ordering_key = "evil"
        /\ handed[c][1].topic = "projects/p1/topics/t2"

====
